---- MODULE Spec2Model ----
(***************************************************************************)
(* Model of src/src/calculator/app.py: the restricted arithmetic          *)
(* evaluator safe_eval (ast.parse followed by _evaluate_ast), the          *)
(* CalculatorState value and the four CalculatorApp handlers.              *)
(*                                                                         *)
(* A text is a sequence of one-character strings.  Numbers are exact:      *)
(* an int is num/1, a float is the binary fraction num/den it holds, and   *)
(* of a complex number the type alone is kept.  A result that no such      *)
(* value represents (a float with an infinite binary expansion, an integer *)
(* beyond IntCap, an operation that needs the value of a complex number)   *)
(* is reported as the outcome "unmodelled", on which calculate is not      *)
(* taken; no formula below reads anything into it.                         *)
(***************************************************************************)
EXTENDS Integers, Sequences, FiniteSets, TLC

VARIABLES expression, result, error, display_var, history_var, call

vars == <<expression, result, error, display_var, history_var, call>>

(***************************************************************************)
(* Bounds of the model.                                                    *)
(***************************************************************************)
\* Largest literal of the generated expressions.
MaxLit == 2
\* Longest expression text the handlers are driven to.
MaxLen == 3
\* Magnitude up to which the model carries an integer or a numerator.
IntCap == 10000

(***************************************************************************)
(* Characters.                                                             *)
(***************************************************************************)
Digits == {"0", "1", "2", "3", "4", "5", "6", "7", "8", "9"}

Letters == {"a", "b", "d", "e", "h", "i", "j", "k", "n", "o", "r", "s", "t", "u",
            "x", "N", "O", "T"}

OpChars == {"+", "-", "*", "/", "%", "(", ")", "<", "&", "|", "."}

DigitVal(c) ==
    CASE c = "0" -> 0 [] c = "1" -> 1 [] c = "2" -> 2 [] c = "3" -> 3
      [] c = "4" -> 4 [] c = "5" -> 5 [] c = "6" -> 6 [] c = "7" -> 7
      [] c = "8" -> 8 [] c = "9" -> 9

DigitChar(d) ==
    CASE d = 0 -> "0" [] d = 1 -> "1" [] d = 2 -> "2" [] d = 3 -> "3"
      [] d = 4 -> "4" [] d = 5 -> "5" [] d = 6 -> "6" [] d = 7 -> "7"
      [] d = 8 -> "8" [] d = 9 -> "9"

\* The first position at or after i whose character is outside S.
RECURSIVE RunEnd(_, _, _)
RunEnd(s, i, S) ==
    IF i > Len(s) \/ s[i] \notin S THEN i ELSE RunEnd(s, i + 1, S)

Slice(s, i, j) == SubSeq(s, i, j - 1)

(***************************************************************************)
(* Lexical analysis of ast.parse (Python's tokenizer), for the characters  *)
(* above.  A token is [type, text].                                        *)
(***************************************************************************)
Token(type, text) == [type |-> type, text |-> text]

LexFail(status) == [status |-> status, tokens |-> <<>>]

\* A number: digits, an optional "." and digits, an optional "j".  A decimal
\* integer written with a leading zero and a nonzero digit is a syntax error;
\* a letter right after a number would start an exponent, a radix prefix or a
\* keyword, which the model does not follow.
ScanNumber(s, i) ==
    LET a == RunEnd(s, i, Digits)
        dot == a <= Len(s) /\ s[a] = "."
        b == IF dot THEN RunEnd(s, a + 1, Digits) ELSE a
        imag == b <= Len(s) /\ s[b] = "j"
        e == IF imag THEN b + 1 ELSE b
        text == Slice(s, i, e)
        leadingZero == /\ ~dot /\ ~imag /\ e - i > 1 /\ s[i] = "0"
                       /\ \E k \in i..(e - 1) : s[k] /= "0"
    IN  IF e <= Len(s) /\ s[e] \in Letters
        THEN [status |-> "unmodelled", end |-> e, token |-> Token("NUMBER", text)]
        ELSE IF leadingZero
        THEN [status |-> "SyntaxError", end |-> e, token |-> Token("NUMBER", text)]
        ELSE [status |-> "ok", end |-> e, token |-> Token("NUMBER", text)]

\* A string literal '...': to the closing quote; none is a syntax error.
ScanString(s, i) ==
    LET e == RunEnd(s, i + 1, (Digits \cup Letters \cup OpChars \cup {" "}))
    IN  IF e <= Len(s) /\ s[e] = "'"
        THEN [status |-> "ok", end |-> e + 1, token |-> Token("STRING", Slice(s, i + 1, e))]
        ELSE [status |-> "SyntaxError", end |-> e, token |-> Token("STRING", <<>>)]

\* An operator: the longest of ** // << and the one-character operators.
ScanOp(s, i) ==
    LET two == i < Len(s) /\ s[i] \in {"*", "/", "<"} /\ s[i + 1] = s[i]
        e == IF two THEN i + 2 ELSE i + 1
    IN  [status |-> "ok", end |-> e, token |-> Token("OP", Slice(s, i, e))]

ScanName(s, i) ==
    LET e == RunEnd(s, i, Letters \cup Digits)
    IN  IF e <= Len(s) /\ s[e] = "'"
        THEN [status |-> "unmodelled", end |-> e, token |-> Token("NAME", Slice(s, i, e))]
        ELSE [status |-> "ok", end |-> e, token |-> Token("NAME", Slice(s, i, e))]

RECURSIVE Lex(_, _, _)
Lex(s, i, acc) ==
    IF i > Len(s) THEN [status |-> "ok", tokens |-> acc]
    ELSE IF s[i] = " " THEN Lex(s, i + 1, acc)
    ELSE LET c == s[i]
             t == CASE c \in Digits -> ScanNumber(s, i)
                    [] c = "." /\ i < Len(s) /\ s[i + 1] \in Digits -> ScanNumber(s, i)
                    [] c = "'" -> ScanString(s, i)
                    [] c \in Letters -> ScanName(s, i)
                    [] c \in OpChars -> ScanOp(s, i)
                    [] OTHER -> [status |-> "unmodelled", end |-> i,
                                 token |-> Token("OP", <<c>>)]
         IN  IF t.status /= "ok" THEN LexFail(t.status)
             ELSE Lex(s, t.end, Append(acc, t.token))

Tokenize(s) == Lex(s, 1, <<>>)

(***************************************************************************)
(* Numbers.  A value is [kind, num, den, nz]: kind is "int", "bool" or     *)
(* "float", the value is num/den in lowest terms (den = 1 unless float),   *)
(* and nz marks the float negative zero.  Kind "complex" is a complex      *)
(* number, of which the model keeps the type only.                         *)
(***************************************************************************)
Abs(n) == IF n < 0 THEN -n ELSE n

RECURSIVE GCD(_, _)
GCD(a, b) == IF b = 0 THEN a ELSE GCD(b, a % b)

RECURSIVE IsPow2(_)
IsPow2(n) == n = 1 \/ (n > 1 /\ n % 2 = 0 /\ IsPow2(n \div 2))

\* floor(log2 n) for n >= 1.
RECURSIVE Log2(_)
Log2(n) == IF n < 2 THEN 0 ELSE 1 + Log2(n \div 2)

FloorDiv(p, q) == IF q > 0 THEN p \div q ELSE (-p) \div (-q)

FloorMod(p, q) == IF q > 0 THEN p % q ELSE -((-p) % (-q))

Val(kind, num, den, nz) == [kind |-> kind, num |-> num, den |-> den, nz |-> nz]

IntV(n) == Val("int", n, 1, FALSE)

BoolV(b) == Val("bool", IF b THEN 1 ELSE 0, 1, FALSE)

ComplexV == Val("complex", 1, 1, FALSE)

NoValue == IntV(0)

\* The result of one operation: a value, or the exception it raises.
Res(status, value) == [status |-> status, value |-> value]

Raises(exc) == Res(exc, NoValue)

\* num/den (den > 0) as a value of the given kind, when the model holds it.
Mk(kind, num, den, nz) ==
    LET g == GCD(Abs(num), den)
        n == num \div g
        d == den \div g
    IN  IF Abs(n) > IntCap \/ d > IntCap THEN Raises("unmodelled")
        ELSE IF kind = "float" /\ ~IsPow2(d) THEN Raises("unmodelled")
        ELSE Res("value", Val(kind, n, d, nz /\ n = 0 /\ kind = "float"))

IsFloat(v) == v.kind = "float"

IsComplex(v) == v.kind = "complex"

IsZero(v) == ~IsComplex(v) /\ v.num = 0

\* The sign bit of v as a float operand: an int or bool zero converts to +0.0.
Negative(v) == v.num < 0 \/ (IsFloat(v) /\ v.nz)

\* int op int is an int (a bool operand counts as an int); a float operand
\* makes the result a float.
ArithKind(a, b) == IF IsFloat(a) \/ IsFloat(b) THEN "float" ELSE "int"

\* operator.add
add(a, b) ==
    IF IsComplex(a) \/ IsComplex(b) THEN Res("value", ComplexV)
    ELSE
    Mk(ArithKind(a, b), a.num * b.den + b.num * a.den, a.den * b.den,
       IsZero(a) /\ IsZero(b) /\ Negative(a) /\ Negative(b))

\* operator.sub
sub(a, b) ==
    IF IsComplex(a) \/ IsComplex(b) THEN Res("value", ComplexV)
    ELSE
    Mk(ArithKind(a, b), a.num * b.den - b.num * a.den, a.den * b.den,
       IsZero(a) /\ IsZero(b) /\ Negative(a) /\ ~Negative(b))

\* operator.mul
mul(a, b) ==
    IF IsComplex(a) \/ IsComplex(b) THEN Res("value", ComplexV)
    ELSE
    Mk(ArithKind(a, b), a.num * b.num, a.den * b.den, Negative(a) /= Negative(b))

\* truediv that keeps an exact quotient of two ints an int.
truediv_exact(a, b) ==
    IF IsComplex(b) THEN Raises("unmodelled")
    ELSE IF IsZero(b) THEN Raises("ZeroDivisionError")
    ELSE IF IsComplex(a) THEN Res("value", ComplexV)
    ELSE LET p == a.num * b.den
             q == a.den * b.num
             whole == ~IsFloat(a) /\ ~IsFloat(b) /\ p % Abs(q) = 0
         IN  Mk(IF whole THEN "int" ELSE "float", IF q < 0 THEN -p ELSE p, Abs(q),
                Negative(a) /= Negative(b))

\* operator.truediv: a float for int and float operands; a zero divisor
\* raises ZeroDivisionError.  Whether a complex divisor is zero is beyond the
\* model.
truediv(a, b) ==
    IF IsComplex(b) THEN Raises("unmodelled")
    ELSE IF IsZero(b) THEN Raises("ZeroDivisionError")
    ELSE IF IsComplex(a) THEN Res("value", ComplexV)
    ELSE LET p == a.num * b.den
             q == a.den * b.num
         IN  Mk("float", IF q < 0 THEN -p ELSE p, Abs(q), Negative(a) /= Negative(b))

\* operator.floordiv: the floor of the quotient (float_floor_div for floats);
\* complex has no floor division, so a complex operand raises TypeError.
floordiv(a, b) ==
    IF IsComplex(a) \/ IsComplex(b) THEN Raises("TypeError")
    ELSE IF IsZero(b) THEN Raises("ZeroDivisionError")
    ELSE LET q == FloorDiv(a.num * b.den, a.den * b.num)
         IN  Mk(ArithKind(a, b), q, 1, IsZero(a) /\ (Negative(a) /= Negative(b)))

\* operator.mod: the remainder with the sign of the divisor (float_rem for
\* floats, whose zero remainder takes the divisor's sign); complex has no
\* remainder, so a complex operand raises TypeError.
mod(a, b) ==
    IF IsComplex(a) \/ IsComplex(b) THEN Raises("TypeError")
    ELSE IF IsZero(b) THEN Raises("ZeroDivisionError")
    ELSE LET m == FloorMod(a.num * b.den, a.den * b.num)
         IN  Mk(ArithKind(a, b), m, a.den * b.den, Negative(b))

\* base^n for n >= 0 as <<num, den>>, or <<0, 0>> once it leaves the range of
\* the model.
RECURSIVE PowFrac(_, _, _)
PowFrac(num, den, n) ==
    IF n = 0 THEN <<1, 1>>
    ELSE LET r == PowFrac(num, den, n - 1)
         IN  IF r[2] = 0 \/ Abs(r[1] * num) > IntCap \/ r[2] * den > IntCap
             THEN <<0, 0>>
             ELSE <<r[1] * num, r[2] * den>>

\* The exponent 1024 of the first power of two past the largest float
\* (sys.float_info.max_exp).
FloatMaxExp == 1024

\* operator.pow.  An int to a non-negative int power is an int; every other
\* case is float_pow on the operands as floats: a zero base to a negative
\* power raises ZeroDivisionError, a result of magnitude 2^1024 or more
\* raises OverflowError, and a negative base to a fractional power is a
\* complex number.
pow(a, b) ==
    LET intExp == b.den = 1
        n == Abs(b.num)
        kind == IF IsFloat(a) \/ IsFloat(b) \/ b.num < 0 THEN "float" ELSE "int"
        \* |a| >= 2^k
        k == IF Abs(a.num) >= a.den THEN Log2(Abs(a.num) \div a.den) ELSE 0
        small == IF n <= 2 * Log2(IntCap) THEN PowFrac(a.num, a.den, n) ELSE <<0, 0>>
        unit == Abs(a.num) = a.den
        odd == n % 2 = 1
    IN  IF IsComplex(a) \/ IsComplex(b) THEN Raises("unmodelled")
        ELSE IF ~intExp THEN
            IF IsZero(a) /\ b.num < 0 THEN Raises("ZeroDivisionError")
            ELSE IF IsZero(a) THEN Mk("float", 0, 1, FALSE)
            ELSE IF a.num < 0 THEN Res("value", ComplexV)
            ELSE Raises("unmodelled")
        ELSE IF n = 0 THEN Mk(kind, 1, 1, FALSE)
        ELSE IF IsZero(a) THEN
            IF b.num < 0 THEN Raises("ZeroDivisionError")
            ELSE Mk(kind, 0, 1, Negative(a) /\ odd)
        ELSE IF unit THEN Mk(kind, IF a.num < 0 /\ odd THEN -1 ELSE 1, 1, FALSE)
        ELSE IF kind = "float" /\ b.num > 0 /\ k * n >= FloatMaxExp
            THEN Raises("OverflowError")
        ELSE IF small[2] = 0 THEN Raises("unmodelled")
        ELSE IF b.num > 0 THEN Mk(kind, small[1], small[2], FALSE)
        ELSE Mk(kind, IF small[1] < 0 THEN -small[2] ELSE small[2], Abs(small[1]), FALSE)

\* operator.neg
neg(a) ==
    IF IsComplex(a) THEN Res("value", ComplexV)
    ELSE
    Res("value", Val(IF IsFloat(a) THEN "float" ELSE "int", -a.num, a.den,
                     IsFloat(a) /\ IsZero(a) /\ ~a.nz))

(***************************************************************************)
(* Syntax trees.  A node is [type, op, value, kids]: type is the ast class *)
(* (Constant, Name, Call, Attribute, Tuple, Compare, BoolOp, BinOp,        *)
(* UnaryOp), op the operator class of a BinOp, UnaryOp or BoolOp and the   *)
(* Python type of a Constant's value, kids the child nodes in source       *)
(* order.                                                                  *)
(***************************************************************************)
Node(type, op, value, kids) ==
    [type |-> type, op |-> op, value |-> value, kids |-> kids]

NoNode == Node("", "", NoValue, <<>>)

Constant(pytype, value) == Node("Constant", pytype, value, <<>>)

BinOp(left, op, right) == Node("BinOp", op, NoValue, <<left, right>>)

UnaryOp(op, operand) == Node("UnaryOp", op, NoValue, <<operand>>)

RECURSIVE DigitsVal(_)
DigitsVal(ds) ==
    IF ds = <<>> THEN 0
    ELSE 10 * DigitsVal(SubSeq(ds, 1, Len(ds) - 1)) + DigitVal(ds[Len(ds)])

RECURSIVE Pow10(_)
Pow10(n) == IF n = 0 THEN 1 ELSE 10 * Pow10(n - 1)

\* The Constant node of a NUMBER token: an int, a float (the literal's value
\* when it is a binary fraction the model holds) or a complex.
NumberNode(text) ==
    LET n == Len(text)
        a == RunEnd(text, 1, Digits)
        ip == Slice(text, 1, a)
        fp == IF a <= n /\ text[a] = "." THEN Slice(text, a + 1, RunEnd(text, a + 1, Digits))
              ELSE <<>>
        v == IF a <= n /\ text[a] = "."
             THEN Mk("float", DigitsVal(ip \o fp), Pow10(Len(fp)), FALSE)
             ELSE Mk("int", DigitsVal(ip), 1, FALSE)
    IN  IF text[n] = "j" THEN Constant("complex", NoValue)
        ELSE IF Len(ip) + Len(fp) > 8 \/ v.status /= "value"
        THEN Constant("unmodelled", NoValue)
        ELSE Constant(v.value.kind, v.value)

(***************************************************************************)
(* The parser of ast.parse(expression, mode="eval"): Python's expression   *)
(* grammar for the tokens above.  A result is [status, node, pos]: pos is  *)
(* the first token not consumed.                                           *)
(***************************************************************************)
PR(status, node, pos) == [status |-> status, node |-> node, pos |-> pos]

Fail(status, pos) == PR(status, NoNode, pos)

IsTok(toks, i, type, text) ==
    i <= Len(toks) /\ toks[i].type = type /\ toks[i].text = text

IsOp(toks, i, text) == IsTok(toks, i, "OP", text)

\* The left-associative binary levels, loosest first:
\* bitwise_or, bitwise_and, shift_expr, sum, term.
BinLevels == 5

\* LevelOps with * / // % on the level of + and -.
LevelOps_flat(lvl) ==
    CASE lvl = 1 -> {<<"|">>}
      [] lvl = 2 -> {<<"&">>}
      [] lvl = 3 -> {<<"<", "<">>}
      [] lvl = 4 -> {<<"+">>, <<"-">>, <<"*">>, <<"/">>, <<"/", "/">>, <<"%">>}
      [] lvl = 5 -> {}

LevelOps(lvl) ==
    CASE lvl = 1 -> {<<"|">>}
      [] lvl = 2 -> {<<"&">>}
      [] lvl = 3 -> {<<"<", "<">>}
      [] lvl = 4 -> {<<"+">>, <<"-">>}
      [] lvl = 5 -> {<<"*">>, <<"/">>, <<"/", "/">>, <<"%">>}

BinOpClass(text) ==
    CASE text = <<"|">> -> "BitOr"
      [] text = <<"&">> -> "BitAnd"
      [] text = <<"<", "<">> -> "LShift"
      [] text = <<"+">> -> "Add"
      [] text = <<"-">> -> "Sub"
      [] text = <<"*">> -> "Mult"
      [] text = <<"/">> -> "Div"
      [] text = <<"/", "/">> -> "FloorDiv"
      [] text = <<"%">> -> "Mod"

KwTrue == <<"T", "r", "u", "e">>
KwNone == <<"N", "o", "n", "e">>
KwAnd == <<"a", "n", "d">>
KwOr == <<"o", "r">>
KwNot == <<"n", "o", "t">>

\* Keywords these letters spell that the parser below does not follow.
OtherKeywords ==
    {<<"a", "s">>, <<"i", "n">>, <<"i", "s">>, <<"r", "a", "i", "s", "e">>,
     <<"b", "r", "e", "a", "k">>}

\* The chained levels: a disjunction ("or") of conjunctions ("and") of
\* inversions, and a comparison ("cmp") of bitwise_or operands.  Each is one
\* node over all its operands: BoolOp(Or), BoolOp(And), Compare.
IsSep(toks, i, lvl) ==
    CASE lvl = "or" -> IsTok(toks, i, "NAME", KwOr)
      [] lvl = "and" -> IsTok(toks, i, "NAME", KwAnd)
      [] lvl = "cmp" -> IsOp(toks, i, <<"<">>)

ChainNode(lvl, operands) ==
    CASE lvl = "or" -> Node("BoolOp", "Or", NoValue, operands)
      [] lvl = "and" -> Node("BoolOp", "And", NoValue, operands)
      [] lvl = "cmp" -> Node("Compare", "Lt", NoValue, operands)

UnaryAfter(op, r) ==
    IF r.status /= "ok" THEN r ELSE PR("ok", UnaryOp(op, r.node), r.pos)

RECURSIVE ParseChain(_, _, _), ChainOperand(_, _, _), ChainFirst(_, _, _),
          ChainRest(_, _, _, _), ChainNext(_, _, _, _), ParseNot(_, _),
          ParseBin(_, _, _), BinFirst(_, _, _), ParseBinRest(_, _, _, _),
          BinNext(_, _, _, _, _), ParseFactor(_, _), ParsePower(_, _),
          PowerBase(_, _), ParsePrimary(_, _), PrimaryAtom(_, _),
          ParseTrailers(_, _, _), CallArg(_, _, _), ParseAtom(_, _),
          GroupClose(_, _), ParseStrings(_, _)

\* disjunction: conjunction ('or' conjunction)*
\* conjunction: inversion ('and' inversion)*
\* comparison: bitwise_or ('<' bitwise_or)*
ParseChain(toks, i, lvl) == ChainFirst(toks, lvl, ChainOperand(toks, i, lvl))

ChainOperand(toks, i, lvl) ==
    CASE lvl = "or" -> ParseChain(toks, i, "and")
      [] lvl = "and" -> ParseNot(toks, i)
      [] lvl = "cmp" -> ParseBin(toks, i, 1)

ChainFirst(toks, lvl, l) ==
    IF l.status = "ok" /\ IsSep(toks, l.pos, lvl)
    THEN ChainRest(toks, lvl, <<l.node>>, l.pos)
    ELSE l

ChainRest(toks, lvl, operands, i) ==
    IF IsSep(toks, i, lvl)
    THEN ChainNext(toks, lvl, operands, ChainOperand(toks, i + 1, lvl))
    ELSE PR("ok", ChainNode(lvl, operands), i)

ChainNext(toks, lvl, operands, r) ==
    IF r.status /= "ok" THEN r
    ELSE ChainRest(toks, lvl, Append(operands, r.node), r.pos)

\* inversion: 'not' inversion | comparison
ParseNot(toks, i) ==
    IF IsTok(toks, i, "NAME", KwNot)
    THEN UnaryAfter("Not", ParseNot(toks, i + 1))
    ELSE ParseChain(toks, i, "cmp")

\* A left-associative level: operand (op operand)*, grouped from the left.
ParseBin(toks, i, lvl) ==
    IF lvl > BinLevels THEN ParseFactor(toks, i)
    ELSE BinFirst(toks, lvl, ParseBin(toks, i, lvl + 1))

BinFirst(toks, lvl, l) ==
    IF l.status /= "ok" THEN l ELSE ParseBinRest(toks, l.node, l.pos, lvl)

ParseBinRest(toks, left, i, lvl) ==
    IF i <= Len(toks) /\ toks[i].type = "OP" /\ toks[i].text \in LevelOps(lvl)
    THEN BinNext(toks, left, BinOpClass(toks[i].text), lvl, ParseBin(toks, i + 1, lvl + 1))
    ELSE PR("ok", left, i)

BinNext(toks, left, op, lvl, r) ==
    IF r.status /= "ok" THEN r
    ELSE ParseBinRest(toks, BinOp(left, op, r.node), r.pos, lvl)

\* ParseFactor with the sign bound to the primary: ('+' | '-') primary as the
\* base of the power.
ParseFactor_tight(toks, i) ==
    IF IsOp(toks, i, <<"+">>)
    THEN PowerBase(toks, UnaryAfter("UAdd", ParsePrimary(toks, i + 1)))
    ELSE IF IsOp(toks, i, <<"-">>)
    THEN PowerBase(toks, UnaryAfter("USub", ParsePrimary(toks, i + 1)))
    ELSE ParsePower(toks, i)

\* factor: ('+' | '-') factor | power
ParseFactor(toks, i) ==
    IF IsOp(toks, i, <<"+">>) THEN UnaryAfter("UAdd", ParseFactor(toks, i + 1))
    ELSE IF IsOp(toks, i, <<"-">>) THEN UnaryAfter("USub", ParseFactor(toks, i + 1))
    ELSE ParsePower(toks, i)

\* power: primary ['**' factor]
ParsePower(toks, i) == PowerBase(toks, ParsePrimary(toks, i))

PowerExp(base, r) ==
    IF r.status /= "ok" THEN r ELSE PR("ok", BinOp(base, "Pow", r.node), r.pos)

PowerBase(toks, l) ==
    IF l.status = "ok" /\ IsOp(toks, l.pos, <<"*", "*">>)
    THEN PowerExp(l.node, ParseFactor(toks, l.pos + 1))
    ELSE l

\* primary: atom ('(' [expression] ')' | '.' NAME)*
ParsePrimary(toks, i) == PrimaryAtom(toks, ParseAtom(toks, i))

PrimaryAtom(toks, a) ==
    IF a.status /= "ok" THEN a ELSE ParseTrailers(toks, a.node, a.pos)

ParseTrailers(toks, prim, i) ==
    IF IsOp(toks, i, <<"(">>) THEN
        IF IsOp(toks, i + 1, <<")">>)
        THEN ParseTrailers(toks, Node("Call", "", NoValue, <<prim>>), i + 2)
        ELSE CallArg(toks, prim, ParseChain(toks, i + 1, "or"))
    ELSE IF IsOp(toks, i, <<".">>) THEN
        IF i + 1 <= Len(toks) /\ toks[i + 1].type = "NAME"
           /\ toks[i + 1].text \notin {KwTrue, KwNone, KwAnd, KwOr, KwNot}
        THEN ParseTrailers(toks, Node("Attribute", "", NoValue, <<prim>>), i + 2)
        ELSE Fail("SyntaxError", i + 1)
    ELSE PR("ok", prim, i)

CallArg(toks, prim, r) ==
    IF r.status /= "ok" THEN r
    ELSE IF IsOp(toks, r.pos, <<")">>)
    THEN ParseTrailers(toks, Node("Call", "", NoValue, <<prim, r.node>>), r.pos + 1)
    ELSE Fail("SyntaxError", r.pos)

NameAtom(text, i) ==
    IF text = KwTrue THEN PR("ok", Constant("bool", BoolV(TRUE)), i + 1)
    ELSE IF text = KwNone THEN PR("ok", Constant("NoneType", NoValue), i + 1)
    ELSE IF text \in {KwAnd, KwOr, KwNot} THEN Fail("SyntaxError", i)
    ELSE PR("ok", Node("Name", "", NoValue, <<>>), i + 1)

\* atom: NUMBER | STRING+ | True | None | NAME | '(' ')' | '(' expression ')'
ParseAtom(toks, i) ==
    IF i > Len(toks) THEN Fail("SyntaxError", i)
    ELSE CASE toks[i].type = "NUMBER" -> PR("ok", NumberNode(toks[i].text), i + 1)
           [] toks[i].type = "STRING" -> ParseStrings(toks, i)
           [] toks[i].type = "NAME" -> NameAtom(toks[i].text, i)
           [] toks[i].type = "OP" ->
                IF toks[i].text /= <<"(">> THEN Fail("SyntaxError", i)
                ELSE IF IsOp(toks, i + 1, <<")">>)
                THEN PR("ok", Node("Tuple", "", NoValue, <<>>), i + 2)
                ELSE GroupClose(toks, ParseChain(toks, i + 1, "or"))

GroupClose(toks, r) ==
    IF r.status /= "ok" THEN r
    ELSE IF IsOp(toks, r.pos, <<")">>) THEN PR("ok", r.node, r.pos + 1)
    ELSE Fail("SyntaxError", r.pos)

\* Adjacent string literals are one str constant.
ParseStrings(toks, i) ==
    IF i <= Len(toks) /\ toks[i].type = "STRING" THEN ParseStrings(toks, i + 1)
    ELSE PR("ok", Constant("str", NoValue), i)

\* The whole input must be one expression.
ParseEnd(toks, r) ==
    IF r.status = "ok" /\ r.pos <= Len(toks) THEN Fail("SyntaxError", r.pos) ELSE r

ParseTokens(lx) ==
    IF lx.status /= "ok" THEN Fail(lx.status, 0)
    ELSE IF \E k \in 1..Len(lx.tokens) :
                lx.tokens[k].type = "NAME" /\ lx.tokens[k].text \in OtherKeywords
    THEN Fail("unmodelled", 0)
    ELSE ParseEnd(lx.tokens, ParseChain(lx.tokens, 1, "or"))

\* ast.parse(expression, mode="eval"): the body of the Expression node, or
\* the SyntaxError.
Parse(s) == ParseTokens(Tokenize(s))

(***************************************************************************)
(* _ALLOWED_OPERATORS, _ALLOWED_UNARY_OPERATORS, _evaluate_ast, safe_eval. *)
(***************************************************************************)
AllowedOperators == {"Add", "Sub", "Mult", "Div", "Pow", "FloorDiv", "Mod"}

AllowedUnaryOperators == {"UAdd", "USub"}

\* _ALLOWED_OPERATORS[type(node.op)](left, right)
ApplyOperator(op, left, right) ==
    CASE op = "Add" -> add(left, right)
      [] op = "Sub" -> sub(left, right)
      [] op = "Mult" -> mul(left, right)
      [] op = "Div" -> truediv(left, right)
      [] op = "Pow" -> pow(left, right)
      [] op = "FloorDiv" -> floordiv(left, right)
      [] op = "Mod" -> mod(left, right)

\* _ALLOWED_UNARY_OPERATORS[type(node.op)](operand): UAdd is lambda a: a.
ApplyUnaryOperator(op, operand) ==
    CASE op = "UAdd" -> Res("value", operand)
      [] op = "USub" -> neg(operand)

\* One step of the walk, in execution order: "check" is _evaluate_ast entering
\* the node at path (its isinstance dispatch), "apply" the call of the operator
\* function of the node at path on args, which ends with res.
Event(ev, path, op, args, res) ==
    [ev |-> ev, path |-> path, op |-> op, args |-> args, res |-> res]

\* What a call ends with: status is "value", or the exception that leaves it
\* ("EvaluationError", "OverflowError", "TypeError"), or "unmodelled"; cause is the message
\* of the EvaluationError raised by _evaluate_ast.
Outcome(status, cause, value, log) ==
    [status |-> status, cause |-> cause, value |-> value, log |-> log]

\* IsNumberType that lets every constant through.
IsNumberType_any(pytype) == pytype /= "unmodelled"

IsNumberType(pytype) == pytype \in {"int", "float", "bool"}

UnaryAllowed(node) == node.type = "UnaryOp" /\ node.op \in AllowedUnaryOperators

BinaryAllowed(node) == node.type = "BinOp" /\ node.op \in AllowedOperators

\* BinaryResult without the except clause.
BinaryResult_uncaught(r, log) == Outcome(r.status, "", r.value, log)

\* A ZeroDivisionError of the operator becomes EvaluationError("Division by
\* zero"); any other exception of the operator leaves _evaluate_ast as it is.
BinaryResult(r, log) ==
    IF r.status = "ZeroDivisionError"
    THEN Outcome("EvaluationError", "Division by zero", NoValue, log)
    ELSE Outcome(r.status, "", r.value, log)

\* The try statement of the BinOp branch, r being what the operator ended with.
BinaryApply(op, path, left, right, r, log) ==
    BinaryResult(r, Append(log, Event("apply", path, op, <<left, right>>, r)))

RECURSIVE EvaluateAst(_, _, _)
EvaluateAst(node, path, log0) ==
    LET log == Append(log0, Event("check", path, node.type, <<>>, Raises("none")))
    IN  IF node.type = "Constant" THEN
            IF IsNumberType(node.op) THEN Outcome("value", "", node.value, log)
            ELSE IF node.op = "unmodelled" THEN Outcome("unmodelled", "", NoValue, log)
            ELSE Outcome("EvaluationError", "Unsupported constant", NoValue, log)
        ELSE IF UnaryAllowed(node) THEN
            LET operand == EvaluateAst(node.kids[1], Append(path, 1), log)
                r == ApplyUnaryOperator(node.op, operand.value)
            IN  IF operand.status /= "value" THEN operand
                ELSE Outcome(r.status, "", r.value,
                             Append(operand.log,
                                    Event("apply", path, node.op, <<operand.value>>, r)))
        ELSE IF BinaryAllowed(node) THEN
            LET left == EvaluateAst(node.kids[1], Append(path, 1), log)
                right == EvaluateAst(node.kids[2], Append(path, 2), left.log)
            IN  IF left.status /= "value" THEN left
                ELSE IF right.status /= "value" THEN right
                ELSE BinaryApply(node.op, path, left.value, right.value,
                                 ApplyOperator(node.op, left.value, right.value),
                                 right.log)
        ELSE Outcome("EvaluationError", "Unsupported expression", NoValue, log)

EvaluateParsed(parsed) ==
    IF parsed.status = "SyntaxError"
    THEN Outcome("EvaluationError", "SyntaxError", NoValue, <<>>)
    ELSE IF parsed.status /= "ok" THEN Outcome("unmodelled", "", NoValue, <<>>)
    ELSE EvaluateAst(parsed.node, <<>>, <<>>)

\* safe_eval(expression): a SyntaxError of ast.parse and an EvaluationError of
\* _evaluate_ast both leave as EvaluationError("Invalid expression"), cause
\* kept as __cause__; nothing else is caught.
safe_eval(text) == EvaluateParsed(Parse(text))

(***************************************************************************)
(* str(result).                                                            *)
(***************************************************************************)
RECURSIVE NatToStr(_)
NatToStr(n) ==
    IF n < 10 THEN <<DigitChar(n)>> ELSE Append(NatToStr(n \div 10), DigitChar(n % 10))

\* The decimal digits of r/den, 0 <= r < den, den a power of two.
RECURSIVE FracDigits(_, _)
FracDigits(r, den) ==
    IF r = 0 THEN <<>>
    ELSE <<DigitChar((10 * r) \div den)>> \o FracDigits((10 * r) % den, den)

\* The text "Ошибка" that calculate shows for an EvaluationError, letter for
\* letter in Latin script (a module holds ASCII only).
ErrorText == <<"O", "s", "h", "i", "b", "k", "a">>

\* repr of a float is its shortest decimal that reads back as the same float:
\* for a binary fraction of at most 15 significant digits, its exact decimal
\* expansion, with ".0" for a whole number.
Str(v) ==
    LET a == Abs(v.num)
        ip == NatToStr(a \div v.den)
        fp == FracDigits(a % v.den, v.den)
        sign == IF Negative(v) THEN <<"-">> ELSE <<>>
    IN  CASE v.kind = "bool" -> IF v.num = 1 THEN KwTrue ELSE <<"F", "a", "l", "s", "e">>
          [] v.kind = "int" -> sign \o ip
          [] v.kind = "float" -> sign \o ip \o <<".">> \o (IF fp = <<>> THEN <<"0">> ELSE fp)

StrModelled(v) ==
    /\ ~IsComplex(v)
    /\ v.kind = "float" => Len(NatToStr(Abs(v.num) \div v.den))
                        + Len(FracDigits(Abs(v.num) % v.den, v.den)) <= 15

(***************************************************************************)
(* CalculatorState and the CalculatorApp handlers.  call is the handler    *)
(* that ran last: its name, its text (the argument of append, the argument *)
(* of safe_eval in calculate) and, for calculate, what safe_eval ended     *)
(* with.                                                                   *)
(***************************************************************************)
Call(handler, text, outcome) ==
    [handler |-> handler, text |-> text, status |-> outcome.status,
     cause |-> outcome.cause, value |-> outcome.value, log |-> outcome.log]

NoOutcome == Outcome("none", "", NoValue, <<>>)

NoCall == Call("__init__", <<>>, NoOutcome)

\* CalculatorState.append
State_append(value) ==
    /\ expression' = expression \o value
    /\ UNCHANGED <<result, error>>

\* CalculatorState.clear
State_clear ==
    /\ expression' = <<>>
    /\ result' = <<"0">>
    /\ error' = <<>>

\* backspace that drops the first character.
State_backspace_first ==
    /\ expression' = IF expression /= <<>> THEN Tail(expression) ELSE expression
    /\ UNCHANGED <<result, error>>

\* CalculatorState.backspace
State_backspace ==
    /\ expression' = IF expression /= <<>>
                     THEN SubSeq(expression, 1, Len(expression) - 1)
                     ELSE expression
    /\ UNCHANGED <<result, error>>

\* CalculatorApp.append
append(value) ==
    /\ State_append(value)
    /\ history_var' = expression'
    /\ call' = Call("append", value, NoOutcome)
    /\ UNCHANGED display_var

\* CalculatorApp.clear
clear ==
    /\ State_clear
    /\ display_var' = result'
    /\ history_var' = <<>>
    /\ call' = Call("clear", <<>>, NoOutcome)

\* CalculatorApp.backspace
backspace ==
    /\ State_backspace
    /\ history_var' = expression'
    /\ call' = Call("backspace", <<>>, NoOutcome)
    /\ UNCHANGED display_var

\* The argument of safe_eval in calculate: expression or result.
CalcInput == IF expression /= <<>> THEN expression ELSE result

\* state.result after the try statement of calculate.
CalcResult(outcome) ==
    IF outcome.status = "EvaluationError" THEN ErrorText ELSE Str(outcome.value)

\* The body of calculate, given what safe_eval(text) ended with.  An
\* exception other than EvaluationError leaves the handler before it assigns
\* anything.
CalculateWith(text, outcome) ==
    /\ outcome.status /= "unmodelled"
    /\ outcome.status = "value" => StrModelled(outcome.value)
    /\ call' = Call("calculate", text, outcome)
    /\ IF outcome.status \in {"value", "EvaluationError"}
       THEN /\ result' = CalcResult(outcome)
            /\ display_var' = result'
            /\ history_var' = text
       ELSE UNCHANGED <<result, display_var, history_var>>
    /\ UNCHANGED <<expression, error>>

\* CalculatorApp.calculate
calculate == CalculateWith(CalcInput, safe_eval(CalcInput))

(***************************************************************************)
(* The calculator: a fresh CalculatorApp driven through its four handlers. *)
(***************************************************************************)
\* The buttons the model presses (of the 16 that _build_layout binds to
\* append).
Keys == {"0", "2", "-", "/"}

\* 9.0 ** 999, the text that the buttons 9 . * * 9 9 9 append one by one,
\* passed here to append in a single call.
Pasted == <<"9", ".", "*", "*", "9", "9", "9">>

Init ==
    /\ expression = <<>>
    /\ result = <<"0">>
    /\ error = <<>>
    /\ display_var = <<"0">>
    /\ history_var = <<>>
    /\ call = NoCall

Next ==
    \/ \E k \in Keys : Len(expression) < MaxLen /\ append(<<k>>)
    \/ Len(expression) < MaxLen /\ append(Pasted)
    \/ backspace
    \/ clear
    \/ calculate

Spec == Init /\ [][Next]_vars

(***************************************************************************)
(* safe_eval on generated expressions: a fresh CalculatorApp whose one     *)
(* append call passed a whole text, followed by calculate.                 *)
(***************************************************************************)
Lits == {<<DigitChar(n)>> : n \in 0..MaxLit}

Signed == Lits \cup {<<"-">> \o l : l \in Lits}

\* 0.5 and 2.0
Floats == {<<".", "5">>, <<"2", ".">>}

\* (-1) ** 0.5, a complex number
ComplexText == <<"(", "-", "1", ")", "*", "*", ".", "5">>

Operands == Signed \cup Floats \cup {Pasted, ComplexText}

ArithOps == {<<"+">>, <<"-">>, <<"*">>, <<"/">>, <<"/", "/">>, <<"%">>, <<"*", "*">>}

\* Operators that Python parses and _ALLOWED_OPERATORS does not hold.
OtherOps == {<<"<">>, <<"&">>, <<"|">>, <<"<", "<">>,
             <<" ">> \o KwAnd \o <<" ">>, <<" ">> \o KwOr \o <<" ">>}

\* Atoms that are no int or float literal: a name, calls, an attribute, a
\* string, None, an imaginary literal, True.
OtherAtoms == {<<"x">>, <<"x", "(", ")">>, <<"a", "b", "s", "(", "-", "1", ")">>,
               <<"x", ".", "x">>, <<"'", "s", "'">>, KwNone, <<"1", "j">>, KwTrue}

Paren(t) == <<"(">> \o t \o <<")">>

Bin(a, op, b) == a \o op \o b

ArithInputs ==
    Operands
    \cup {<<"+">> \o l : l \in Lits}
    \cup {Bin(a, op, b) : a \in Operands, op \in ArithOps, b \in Operands}
    \cup {Bin(Bin(a, op1, b), op2, c) :
             a \in Signed, op1 \in ArithOps, b \in Signed, op2 \in ArithOps, c \in Signed}
    \cup {Bin(Paren(Bin(a, op1, b)), op2, c) :
             a \in Lits, op1 \in ArithOps, b \in Lits, op2 \in ArithOps, c \in Lits}
    \cup {Bin(a, op1, Paren(Bin(b, op2, c))) :
             a \in Lits, op1 \in ArithOps, b \in Lits, op2 \in ArithOps, c \in Lits}
    \cup {<<"-">> \o Paren(Bin(a, op, b)) : a \in Lits, op \in ArithOps, b \in Lits}

RejectedInputs ==
    OtherAtoms
    \cup {Bin(d, op, u) : d \in OtherAtoms, op \in ArithOps, u \in Operands}
    \cup {Bin(u, op, d) : u \in Operands, op \in ArithOps, d \in OtherAtoms}
    \cup {Bin(Bin(a, op1, b), op2, d) :
             a \in Lits, op1 \in ArithOps, b \in Lits, op2 \in ArithOps, d \in OtherAtoms}
    \cup {Bin(Bin(a, op1, d), op2, b) :
             a \in Lits, op1 \in ArithOps, d \in OtherAtoms, op2 \in ArithOps, b \in Lits}
    \cup {<<"-">> \o d : d \in OtherAtoms}
    \cup {KwNot \o <<" ">> \o u : u \in Operands}
    \cup {Bin(a, x, b) : a \in Operands, x \in OtherOps, b \in Operands}
    \cup {Bin(Bin(a, op, b), x, c) :
             a \in Lits, op \in ArithOps, b \in Lits, x \in OtherOps, c \in Lits}
    \cup {Bin(Bin(a, x, b), op, c) :
             a \in Lits, x \in OtherOps, b \in Lits, op \in ArithOps, c \in Lits}
    \cup {Bin(Paren(Bin(a, x, b)), op, c) :
             a \in Lits, x \in OtherOps, b \in Lits, op \in ArithOps, c \in Lits}
    \cup {Bin(a, op, Paren(Bin(b, x, c))) :
             a \in Lits, op \in ArithOps, b \in Lits, x \in OtherOps, c \in Lits}

\* Texts that ast.parse refuses.
BrokenInputs ==
    {a \o op : a \in Signed, op \in ArithOps}
    \cup {op \o a : op \in ArithOps, a \in Lits}
    \cup {<<"(">> \o a : a \in Signed}
    \cup {a \o <<")">> : a \in Signed}
    \cup {a \o <<" ">> \o b : a \in Lits, b \in Lits}
    \cup {<<"0">> \o a : a \in Lits}
    \cup {<<"(", ")">>, <<"'", "s">>, <<"2", " ", "+">>}

Inputs == ArithInputs \cup RejectedInputs \cup BrokenInputs

InitEval ==
    /\ expression \in Inputs
    /\ result = <<"0">>
    /\ error = <<>>
    /\ display_var = <<"0">>
    /\ history_var = expression
    /\ call = Call("append", expression, NoOutcome)

NextEval == calculate

SpecEval == InitEval /\ [][NextEval]_vars

(***************************************************************************)
(* What the properties below read off a state: the call that ran last, the *)
(* tokens and the tree of the text it evaluated, and the log of the walk.  *)
(***************************************************************************)
Calculated == call.handler = "calculate"

CallTokens == Tokenize(call.text).tokens

CallTree == Parse(call.text)

Parsed == Calculated /\ CallTree.status = "ok"

RECURSIVE Nodes(_)
Nodes(n) == {n} \cup UNION {Nodes(n.kids[i]) : i \in 1..Len(n.kids)}

RECURSIVE Paths(_, _)
Paths(n, p) == {p} \cup UNION {Paths(n.kids[i], Append(p, i)) : i \in 1..Len(n.kids)}

IsPrefix(p, q) == Len(p) <= Len(q) /\ SubSeq(q, 1, Len(p)) = p

Applied(log) == {i \in 1..Len(log) : log[i].ev = "apply"}

Text(handler, text) == call.handler = handler /\ call.text = text

\* The call ended as evaluating node ends.
SameOutcomeAs(ref) == call.status = ref.status /\ call.value = ref.value

SameOutcome(node) == SameOutcomeAs(EvaluateAst(node, <<>>, <<>>))

IsNumberTok(t) == t.type = "NUMBER"

IsSignTok(t) == t.type = "OP" /\ t.text \in {<<"+">>, <<"-">>}

IsArithTok(t) ==
    t.type = "OP" /\ t.text \in {<<"+">>, <<"-">>, <<"*">>, <<"/">>, <<"/", "/">>,
                                <<"%">>, <<"*", "*">>}

OperatorOf(t) == IF t.text = <<"*", "*">> THEN "Pow" ELSE BinOpClass(t.text)

SignOf(t) == IF t.text = <<"-">> THEN "USub" ELSE "UAdd"

LitOf(t) == NumberNode(t.text)

(***************************************************************************)
(* safe_eval: what it rejects.                                             *)
(***************************************************************************)
NotArithmetic(n) ==
    \/ n.type \in {"Name", "Call", "Compare", "BoolOp"}
    \/ n.type = "Constant" /\ n.op = "str"
    \/ n.type = "BinOp" /\ n.op \in {"BitAnd", "BitOr", "LShift"}

\* C1: when the parsed expression holds an identifier, a call, a string
\* literal, a comparison, a boolean operator or a bitwise operator anywhere,
\* safe_eval raises EvaluationError and returns no value.
C1_RejectsNonArithmetic ==
    Parsed /\ (\E n \in Nodes(CallTree.node) : NotArithmetic(n))
        => call.status = "EvaluationError"

\* The right operand of a division, floor division or remainder in the tree
\* evaluates to zero.
ZeroDivisor(n) ==
    /\ n.type = "BinOp"
    /\ n.op \in {"Div", "FloorDiv", "Mod"}
    /\ LET right == EvaluateAst(n.kids[2], <<>>, <<>>)
       IN  right.status = "value" /\ IsZero(right.value)

\* C2: when the right operand of some /, // or % evaluates to zero, safe_eval
\* raises EvaluationError and returns no value, whatever the left operand is
\* and wherever the operation sits.
C2_ZeroDivisorRaises ==
    Parsed /\ (\E n \in Nodes(CallTree.node) : ZeroDivisor(n))
        => call.status = "EvaluationError"

\* C5: when the expression holds a string, boolean, None or complex literal,
\* safe_eval raises EvaluationError and returns no value.
C5_OnlyIntAndFloatLiterals ==
    Parsed /\ (\E n \in Nodes(CallTree.node) :
                  n.type = "Constant" /\ n.op \in {"str", "bool", "NoneType", "complex"})
        => call.status = "EvaluationError"

(***************************************************************************)
(* safe_eval: grouping.                                                    *)
(***************************************************************************)
Prec(op) ==
    CASE op \in {"Add", "Sub"} -> 1
      [] op \in {"Mult", "Div", "FloorDiv", "Mod"} -> 2
      [] op = "Pow" -> 3

\* a op1 b op2 c grouped by the standard rules: the tighter operator first,
\* equals from the left, ** from the right.
Grouped(a, op1, b, op2, c) ==
    IF Prec(op2) > Prec(op1) \/ (op1 = "Pow" /\ op2 = "Pow")
    THEN BinOp(a, op1, BinOp(b, op2, c))
    ELSE BinOp(BinOp(a, op1, b), op2, c)

IsIntTok(t) == IsNumberTok(t) /\ LitOf(t).op = "int"

IsParen(t, text) == t.type = "OP" /\ t.text = text

\* i op i op i
Flat3(toks) ==
    /\ Len(toks) = 5
    /\ IsIntTok(toks[1]) /\ IsArithTok(toks[2]) /\ IsIntTok(toks[3])
    /\ IsArithTok(toks[4]) /\ IsIntTok(toks[5])

\* (i op i) op i
Left3(toks) ==
    /\ Len(toks) = 7
    /\ IsParen(toks[1], <<"(">>) /\ IsIntTok(toks[2]) /\ IsArithTok(toks[3])
    /\ IsIntTok(toks[4]) /\ IsParen(toks[5], <<")">>) /\ IsArithTok(toks[6])
    /\ IsIntTok(toks[7])

\* i op (i op i)
Right3(toks) ==
    /\ Len(toks) = 7
    /\ IsIntTok(toks[1]) /\ IsArithTok(toks[2]) /\ IsParen(toks[3], <<"(">>)
    /\ IsIntTok(toks[4]) /\ IsArithTok(toks[5]) /\ IsIntTok(toks[6])
    /\ IsParen(toks[7], <<")">>)

\* C3: an expression over integer literals, the binary operators and
\* parentheses evaluates as its standard grouping does: * / // % before + -,
\* each of these levels from the left, ** from the right, parentheses first.
C3_StandardGrouping ==
    Calculated =>
        /\ Flat3(CallTokens) =>
              SameOutcome(Grouped(LitOf(CallTokens[1]), OperatorOf(CallTokens[2]),
                                  LitOf(CallTokens[3]), OperatorOf(CallTokens[4]),
                                  LitOf(CallTokens[5])))
        /\ Left3(CallTokens) =>
              SameOutcome(BinOp(BinOp(LitOf(CallTokens[2]), OperatorOf(CallTokens[3]),
                                      LitOf(CallTokens[4])),
                                OperatorOf(CallTokens[6]), LitOf(CallTokens[7])))
        /\ Right3(CallTokens) =>
              SameOutcome(BinOp(LitOf(CallTokens[1]), OperatorOf(CallTokens[2]),
                                BinOp(LitOf(CallTokens[4]), OperatorOf(CallTokens[5]),
                                      LitOf(CallTokens[6]))))

\* 1+2*2 is 1+(2*2) = 5, not (1+2)*2 = 6.
C3_Witness ==
    /\ Text("calculate", <<"1", "+", "2", "*", "2">>)
    /\ call.status = "value"
    /\ call.value = IntV(5)

IsInt(v) == v.kind = "int"

Fresh == expression = <<>> /\ result = <<"0">> /\ error = <<>>

\* C6: from a fresh state, append(v) puts v at the end of the expression,
\* backspace removes its last character and nothing when it is empty, clear
\* sets expression "", result "0", error ""; append and backspace leave
\* result and error as they are.
C6_StateOperations ==
    /\ Fresh
    /\ [][/\ call'.handler = "append" =>
                /\ expression' = expression \o call'.text
                /\ result' = result /\ error' = error
          /\ call'.handler = "backspace" =>
                /\ expression = <<>> => expression' = <<>>
                /\ expression /= <<>> =>
                      /\ Len(expression') = Len(expression) - 1
                      /\ expression = Append(expression', expression[Len(expression)])
                /\ result' = result /\ error' = error
          /\ call'.handler = "clear" => Fresh']_vars

\* "2/" was calculated, then backspace left "2" and the result as it was.
C6_Witness ==
    /\ call.handler = "backspace"
    /\ expression = <<"2">>
    /\ result = ErrorText

(***************************************************************************)
(* safe_eval: unary operators and powers.                                  *)
(***************************************************************************)
\* s a ** b
SignedPower(toks) ==
    /\ Len(toks) = 4
    /\ IsSignTok(toks[1]) /\ IsNumberTok(toks[2])
    /\ IsParen(toks[3], <<"*", "*">>) /\ IsNumberTok(toks[4])

\* s a ** t b
SignedPowerOfSigned(toks) ==
    /\ Len(toks) = 5
    /\ IsSignTok(toks[1]) /\ IsNumberTok(toks[2])
    /\ IsParen(toks[3], <<"*", "*">>) /\ IsSignTok(toks[4]) /\ IsNumberTok(toks[5])

\* C7 as claimed: unary + and - bind tighter than **, so that -a**b evaluates
\* as (-a)**b ("-2**2" yields 4).
C7_UnaryBindsTighter ==
    Calculated /\ SignedPower(CallTokens)
        => SameOutcome(BinOp(UnaryOp(SignOf(CallTokens[1]), LitOf(CallTokens[2])),
                             "Pow", LitOf(CallTokens[4])))

\* C7 as amended: ** binds tighter than a unary operator on its left and
\* looser than one on its right: -a**b evaluates as -(a**b), and a**-b as
\* a**(-b).
C7_PowerBindsTighter ==
    Calculated =>
        /\ SignedPower(CallTokens) =>
              SameOutcome(UnaryOp(SignOf(CallTokens[1]),
                                  BinOp(LitOf(CallTokens[2]), "Pow", LitOf(CallTokens[4]))))
        /\ SignedPowerOfSigned(CallTokens) =>
              SameOutcome(UnaryOp(SignOf(CallTokens[1]),
                                  BinOp(LitOf(CallTokens[2]), "Pow",
                                        UnaryOp(SignOf(CallTokens[4]),
                                                LitOf(CallTokens[5])))))

\* -2**2 is -4.
C7_Witness ==
    /\ Text("calculate", <<"-", "2", "*", "*", "2">>)
    /\ call.status = "value"
    /\ call.value = IntV(-4)

(***************************************************************************)
(* safe_eval: what makes a permitted expression fail.                      *)
(***************************************************************************)
Permitted(n) ==
    \/ n.type = "Constant" /\ n.op \in {"int", "float"}
    \/ n.type = "UnaryOp" /\ n.op \in AllowedUnaryOperators
    \/ n.type = "BinOp" /\ n.op \in AllowedOperators

AllPermitted == Parsed /\ \A n \in Nodes(CallTree.node) : Permitted(n)

\* / // % applied to a zero right operand
ZeroRight(e) ==
    e.ev = "apply" /\ e.op \in {"Div", "FloorDiv", "Mod"} /\ IsZero(e.args[2])

\* ** applied to a zero base and a negative exponent
ZeroToNegative(e) ==
    e.ev = "apply" /\ e.op = "Pow" /\ IsZero(e.args[1]) /\ e.args[2].num < 0

LastEvent == call.log[Len(call.log)]

\* The operator raised ZeroDivisionError: / // % on a zero right operand
\* (for // and % the left operand an int or a float), ** on a zero base and
\* a negative exponent.
DividesByZero(e) ==
    \/ ZeroRight(e) /\ (e.op = "Div" \/ ~IsComplex(e.args[1]))
    \/ ZeroToNegative(e)

\* C8 as claimed: an expression of int and float literals, permitted
\* operators and parentheses fails if and only if some / // % has a zero right
\* operand; no other operator makes it fail.
C8_FailsOnlyOnZeroDivisor ==
    AllPermitted =>
        (call.status /= "value" <=> \E i \in Applied(call.log) : ZeroRight(call.log[i]))

\* C8 as amended: such an expression raises EvaluationError if and only if an
\* operator application raises ZeroDivisionError: on int and float operands,
\* / // % applied to a zero right operand, or ** applied to a zero base and a
\* negative exponent.  Another exception of an operator (OverflowError,
\* TypeError) ends the evaluation as it is, without a value.
C8_FailsOnZeroDivision ==
    AllPermitted =>
        /\ call.status = "EvaluationError" <=>
              \E i \in Applied(call.log) : DividesByZero(call.log[i])
        /\ call.status = "EvaluationError" => call.cause = "Division by zero"
        /\ call.status \notin {"value", "EvaluationError"} =>
              /\ call.status \in {"OverflowError", "TypeError"}
              /\ LastEvent.ev = "apply"
              /\ LastEvent.res.status = call.status

\* 0**-1 raises EvaluationError (Division by zero).
C8_Witness ==
    /\ Text("calculate", <<"0", "*", "*", "-", "1">>)
    /\ call.status = "EvaluationError"
    /\ call.cause = "Division by zero"
    /\ ZeroToNegative(LastEvent)

(***************************************************************************)
(* safe_eval: the order of checking and evaluating.                        *)
(***************************************************************************)
\* What the isinstance chain of _evaluate_ast lets through.
Whitelisted(n) ==
    \/ n.type = "Constant" /\ n.op \in {"int", "float", "bool"}
    \/ n.type = "UnaryOp" /\ n.op \in AllowedUnaryOperators
    \/ n.type = "BinOp" /\ n.op \in AllowedOperators

HasDisallowed == \E n \in Nodes(CallTree.node) : ~Whitelisted(n)

\* The node at path was checked before step i of the log.
CheckedBefore(log, path, i) ==
    \E j \in 1..(i - 1) : log[j].ev = "check" /\ log[j].path = path

WhitelistCauses == {"Unsupported constant", "Unsupported expression"}

\* C9 as claimed: no operator is applied until every node of the tree has
\* been checked; so an input with a disallowed node sees no operator applied
\* at all, and its failure is the whitelist rejection.
C9_ValidationFirst ==
    Parsed /\ HasDisallowed =>
        /\ \A i \in Applied(call.log) :
              \A q \in Paths(CallTree.node, <<>>) : CheckedBefore(call.log, q, i)
        /\ Applied(call.log) = {}
        /\ call.status = "EvaluationError"
        /\ call.cause \in WhitelistCauses

\* C9 as amended: an operator is applied once every node of its own operands
\* has been checked, the nodes to its right being still unchecked; an input
\* with a disallowed node returns no value, and an EvaluationError is the
\* whitelist rejection exactly when the walk ended checking a node, a
\* division by zero exactly when it ended applying an operator.
C9_OperandsCheckedFirst ==
    Parsed =>
        /\ \A i \in Applied(call.log) :
              \A q \in Paths(CallTree.node, <<>>) :
                  IsPrefix(call.log[i].path, q) => CheckedBefore(call.log, q, i)
        /\ HasDisallowed => call.status /= "value"
        /\ call.status = "EvaluationError" =>
              /\ call.cause \in WhitelistCauses <=> LastEvent.ev = "check"
              /\ call.cause = "Division by zero" <=> LastEvent.ev = "apply"

\* 1+1+x: 1+1 is added before x is rejected.
C9_Witness ==
    /\ Text("calculate", <<"1", "+", "1", "+", "x">>)
    /\ call.status = "EvaluationError"
    /\ call.cause = "Unsupported expression"
    /\ Applied(call.log) /= {}

(***************************************************************************)
(* CalculatorApp.calculate.                                                *)
(***************************************************************************)
\* C10: calculate evaluates the expression, or the result when the expression
\* is empty; it leaves expression and error as they are; afterwards result is
\* the placeholder exactly when the evaluation raised EvaluationError, and
\* else the string of the value returned.
C10_CalculateShowsResultOrError ==
    [][call'.handler = "calculate" =>
          /\ call'.text = (IF expression /= <<>> THEN expression ELSE result)
          /\ expression' = expression
          /\ error' = error
          /\ \/ call'.status = "EvaluationError" /\ result' = ErrorText
             \/ call'.status = "value" /\ result' = Str(call'.value)]_vars

====
